---------------------------- MODULE Spec2Model ----------------------------
(***************************************************************************)
(* djangoflow.core.views: the generic activity views (view, rollback,      *)
(* delete, create, update) as a state machine over the persistent store.   *)
(* One action per request handler.  Every handler is described by the      *)
(* ordered list of collaborator calls it makes and the response it         *)
(* returns; the action applies the calls to the store, under the handler's *)
(* transaction scope.                                                      *)
(***************************************************************************)
EXTENDS Integers, Sequences, FiniteSets, TLC

VARIABLES
    store,    \* persisted activity instances: id -> record
    nextId,   \* the id the store gives the next instance saved for the first time
    req,      \* the request handled last
    calls,    \* the collaborator calls the last request made, in order
    resp,     \* the response of the last request
    before    \* the store as it was when the last request arrived

vars == <<store, nextId, req, calls, resp, before>>

----------------------------------------------------------------------------
(* Bounds and input domains *)

MaxInstances == 1

Apps == {"leave-request", "expense"}

\* model titles of the steps of a workflow; the first is the initial step
Titles == {"Request", "Approval"}

Users == {"alice", "bob"}

Data == {"d1", "d2"}

Fields == {"subject"}

Decisions == {"approve"}

\* names of the controls a POST body may carry (request.POST keys)
Controls == {"save", "finish", "submit"}

Verdicts == {"allow", "deny"}

Ids == 1..MaxInstances

\* task ids a Create route may carry as pk
Pks == {7, 42}

----------------------------------------------------------------------------
(* Values *)

NoInts == {}

\* a collaborator call: operation, integer argument (0: none), string arguments
Ev(op, n, s) == [op |-> op, n |-> n, s |-> s]

NoResp == [kind |-> "none", view |-> "", app |-> "", title |-> "", id |-> 0,
           template |-> "", ctx |-> {}, error |-> {}]

\* HttpResponseRedirect(reverse('workflow-detail', args=[app]))
RedirectIndex(app) == [NoResp EXCEPT !.kind = "redirect", !.view = "workflow-detail",
                                     !.app = app]

\* HttpResponseRedirect(reverse('update', args=(app, title, id)))
RedirectUpdate(app, title, id) == [NoResp EXCEPT !.kind = "redirect", !.view = "update",
                                     !.app = app, !.title = title, !.id = id]

\* render(request, template, context)
Render(template, ctx, error) == [NoResp EXCEPT !.kind = "render", !.template = template,
                                     !.ctx = ctx, !.error = error]

\* the non-null value check() returns
Denied == [NoResp EXCEPT !.kind = "denied"]

\* an exception leaving the handler
Fault == [NoResp EXCEPT !.kind = "fault"]

\* Http404 raised by the generic views' get_object
NotFound == [NoResp EXCEPT !.kind = "not_found"]


----------------------------------------------------------------------------
(* Collaborators of the views (helpers, mixins, models): not part of views.py *)

\* instance.is_initial: whether the model is the workflow's initial step
IsInitial(title) == title = "Request"

\* get_errors(form.errors): one message per field in error
GetErrors(errs) == {<<f, "error">> : f \in errs}

\* form.is_valid()
IsValid(r) == r.errs = {}

\* get_model_instance(request, **kwargs) finds the instance the route addresses
Exists(r, st) ==
    /\ r.pk \in DOMAIN st
    /\ st[r.pk].app = r.app
    /\ st[r.pk].title = r.title

\* the record an instance is first saved as
NewInstance(r, task) == [app |-> r.app, title |-> r.title, data |-> r.data,
                         task |-> task]

Put(st, id, rec) == [i \in DOMAIN st \cup {id} |-> IF i = id THEN rec ELSE st[i]]

\* what one call of a model method writes to the store; id is the id a new
\* instance gets on its first save
Effect(st, e, r, id) ==
         CASE e.op = "initiate_request" -> Put(st, id, NewInstance(r, "in_progress"))
           [] e.op = "assign_task"      -> Put(st, id, NewInstance(r, "assigned"))
           [] e.op = "task.initiate"    -> [st EXCEPT ![id].task = "in_progress"]
           [] e.op = "form.save"        -> [st EXCEPT ![e.n].data = r.data]
           [] e.op = "finish"           -> [st EXCEPT ![e.n].task = "completed"]
           [] e.op = "task.submit"      -> [st EXCEPT ![e.n].task = "submitted"]
           [] e.op = "task.rollback"    -> [st EXCEPT ![e.n].task = "rolled_back"]
           [] e.op = "delete"           -> [i \in DOMAIN st \ {e.n} |-> st[i]]
           [] OTHER                     -> st

RECURSIVE ApplyAll(_, _, _, _)
ApplyAll(st, es, r, id) ==
    IF es = <<>> THEN st
    ELSE ApplyAll(Effect(st, Head(es), r, id), Tail(es), r, id)

----------------------------------------------------------------------------
(* The handlers of views.py: the calls each makes, in order, and its response *)

Check(r) == Ev("check", 0, <<>>)

Plan(cs, rsp) == [calls |-> cs, resp |-> rsp]

\* ViewActivity.dispatch
ViewActivityDispatch(r, st) ==
    IF r.verdict = "deny" THEN Plan(<<Check(r)>>, Denied)
    ELSE IF ~Exists(r, st) THEN Plan(<<Check(r)>>, NotFound)
    ELSE Plan(<<Check(r), Ev("render", 0, <<"core/detail.html">>)>>,
              Render("core/detail.html", {"object"}, {}))

\* RollBackActivity.post with the guard consulted first: the variant the
\* ordering property RollbackBeforeGuard must tell from the code
RollBackGuardFirst(r, st) ==
    IF ~Exists(r, st) THEN Plan(<<>>, Fault)
    ELSE IF r.verdict = "deny" THEN Plan(<<Check(r)>>, Denied)
    ELSE Plan(<<Check(r), Ev("task.rollback", r.pk, <<>>)>>, RedirectIndex(r.app))

\* RollBackActivity.post
RollBackActivityPost(r, st) ==
    IF ~Exists(r, st) THEN Plan(<<>>, Fault)
    ELSE Plan(<<Ev("task.rollback", r.pk, <<>>), Check(r)>>,
              IF r.verdict = "deny" THEN Denied ELSE RedirectIndex(r.app))

\* DeleteActivity.dispatch guarded like ViewActivity.dispatch: the variant
\* DeleteNeverGuarded must tell from the code
DeleteGuarded(r, st) ==
    IF r.verdict = "deny" THEN Plan(<<Check(r)>>, Denied)
    ELSE IF ~Exists(r, st) THEN Plan(<<Check(r)>>, NotFound)
    ELSE IF r.method = "GET"
         THEN Plan(<<Check(r), Ev("render", 0, <<"confirm_delete">>)>>,
                   Render("confirm_delete", {"object"}, {}))
         ELSE Plan(<<Check(r), Ev("delete", r.pk, <<>>)>>, RedirectIndex(r.app))

\* DeleteActivity.dispatch
DeleteActivityDispatch(r, st) ==
    IF ~Exists(r, st) THEN Plan(<<>>, NotFound)
    ELSE IF r.method = "GET"
         THEN Plan(<<Ev("render", 0, <<"confirm_delete">>)>>,
                   Render("confirm_delete", {"object"}, {}))
         ELSE Plan(<<Ev("delete", r.pk, <<>>)>>, RedirectIndex(r.app))

\* CreateActivity.get
CreateActivityGet(r) ==
    IF r.verdict = "deny" THEN Plan(<<Check(r)>>, Denied)
    ELSE Plan(<<Check(r), Ev("render", 0, <<"core/create.html">>)>>,
              Render("core/create.html", {"form"}, {}))

InvalidCreate(r) ==
    Plan(<<Ev("render", 0, <<"core/create.html">>)>>,
         Render("core/create.html", {"form", "error_message"}, GetErrors(r.errs)))

\* CreateActivity.post with the initial branch falling through into the task
\* assignment (a missing else)
CreateInitialFallsThrough(r, id) ==
    IF IsValid(r)
    THEN Plan(<<Ev("model", 0, <<r.data>>)>> \o
              (IF IsInitial(r.title)
               THEN <<Ev("initiate_request", 0, <<r.user>>)>> ELSE <<>>) \o
              <<Ev("assign_task", r.pk, <<>>), Ev("task.initiate", 0, <<>>)>>,
              RedirectUpdate(r.app, r.title, id))
    ELSE InvalidCreate(r)

\* CreateActivity.post initiating the task before it is assigned
CreateInitiatesBeforeAssign(r, id) ==
    IF IsValid(r)
    THEN Plan(<<Ev("model", 0, <<r.data>>)>> \o
              (IF IsInitial(r.title)
               THEN <<Ev("initiate_request", 0, <<r.user>>)>>
               ELSE <<Ev("task.initiate", 0, <<>>), Ev("assign_task", r.pk, <<>>)>>),
              RedirectUpdate(r.app, r.title, id))
    ELSE InvalidCreate(r)

\* CreateActivity.post building and initiating the instance before it looks at
\* the validation result
CreateBeforeValidation(r, id) ==
    IF IsValid(r)
    THEN Plan(<<Ev("model", 0, <<r.data>>)>> \o
              (IF IsInitial(r.title)
               THEN <<Ev("initiate_request", 0, <<r.user>>)>>
               ELSE <<Ev("assign_task", r.pk, <<>>), Ev("task.initiate", 0, <<>>)>>),
              RedirectUpdate(r.app, r.title, id))
    ELSE Plan(<<Ev("model", 0, <<r.data>>), Ev("initiate_request", 0, <<r.user>>)>>
              \o InvalidCreate(r).calls, InvalidCreate(r).resp)

\* CreateActivity.post; id is the id the new instance is saved under
CreateActivityPost(r, id) ==
    IF IsValid(r)
    THEN Plan(<<Ev("model", 0, <<r.data>>)>> \o
              (IF IsInitial(r.title)
               THEN <<Ev("initiate_request", 0, <<r.user>>)>>
               ELSE <<Ev("assign_task", r.pk, <<>>), Ev("task.initiate", 0, <<>>)>>),
              RedirectUpdate(r.app, r.title, id))
    ELSE InvalidCreate(r)

\* UpdateActivity.get
UpdateActivityGet(r, st) ==
    IF ~Exists(r, st) THEN Plan(<<>>, Fault)
    ELSE IF r.verdict = "deny"
         THEN Plan(<<Ev("next", r.pk, <<>>), Check(r)>>, Denied)
         ELSE Plan(<<Ev("next", r.pk, <<>>), Check(r),
                     Ev("render", 0, <<"core/update.html">>)>>,
                   Render("core/update.html", {"form", "object", "next"}, {}))

InvalidUpdate(r) ==
    Plan(<<Ev("next", r.pk, <<>>), Ev("render", 0, <<"core/update.html">>)>>,
         Render("core/update.html", {"form", "object", "next", "error_message"},
                GetErrors(r.errs)))

\* the branch of UpdateActivity.post for a form that validates
ValidUpdate(r, st) ==
    IF "save" \in r.post
    THEN Plan(<<Ev("form.save", r.pk, <<>>), Ev("update", r.pk, <<>>)>>,
              RedirectUpdate(r.app, st[r.pk].title, r.pk))
    ELSE IF "finish" \in r.post
    THEN Plan(<<Ev("form.save", r.pk, <<>>), Ev("finish", r.pk, <<>>)>>,
              RedirectIndex(r.app))
    ELSE IF "submit" \in r.post
    THEN Plan(<<Ev("form.save", r.pk, <<>>),
                Ev("task.submit", r.pk, <<r.app, r.user, r.decision>>)>>,
              RedirectIndex(r.app))
    ELSE Plan(<<Ev("form.save", r.pk, <<>>)>>, Fault)   \* request.POST['submit']

\* UpdateActivity.post whose save branch does not return: it runs on into the
\* redirect to the workflow index
UpdateSaveWithoutReturn(r, st) ==
    IF ~Exists(r, st) THEN Plan(<<>>, Fault)
    ELSE IF IsValid(r)
         THEN IF "save" \in r.post
              THEN Plan(ValidUpdate(r, st).calls, RedirectIndex(r.app))
              ELSE ValidUpdate(r, st)
         ELSE InvalidUpdate(r)

\* UpdateActivity.post saving the form before it is validated
UpdateSavesUnvalidated(r, st) ==
    IF ~Exists(r, st) THEN Plan(<<>>, Fault)
    ELSE IF IsValid(r)
         THEN ValidUpdate(r, st)
         ELSE Plan(<<Ev("form.save", r.pk, <<>>)>> \o InvalidUpdate(r).calls,
                   InvalidUpdate(r).resp)

\* UpdateActivity.post
UpdateActivityPost(r, st) ==
    IF ~Exists(r, st) THEN Plan(<<>>, Fault)
    ELSE IF IsValid(r) THEN ValidUpdate(r, st)
    ELSE InvalidUpdate(r)

\* the handlers decorated with @transaction.atomic
Atomic == {"RollBackActivity.post", "CreateActivity.post", "UpdateActivity.post"}

----------------------------------------------------------------------------
(* Running a handler *)

\* transaction.atomic commits when the handler returns and rolls back when an
\* exception leaves it; outside it every write is committed as it is made
Commit(handler, st, written, rsp) ==
    IF handler \in Atomic /\ rsp.kind = "fault" THEN st ELSE written

NoReq == [handler |-> "none", method |-> "", app |-> "", title |-> "", pk |-> 0,
          user |-> "", errs |-> {}, data |-> "", post |-> {}, decision |-> "",
          verdict |-> ""]

Handle(r, plan) ==
    LET written == ApplyAll(store, plan.calls, r, nextId)
        kept    == Commit(r.handler, store, written, plan.resp)
    IN  /\ req' = r
        /\ calls' = plan.calls
        /\ resp' = plan.resp
        /\ before' = store
        /\ store' = kept
        /\ nextId' = IF nextId \in DOMAIN kept THEN nextId + 1 ELSE nextId

\* the routes (app_name, model_title, pk) requests arrive on: the route of
\* every persisted instance, and one that addresses no instance
Routes == {<<store[i].app, store[i].title, i>> : i \in DOMAIN store}
          \cup {<<"leave-request", "Request", 0>>}

Init ==
    /\ store = [i \in NoInts |-> NewInstance(NoReq, "")]
    /\ nextId = 1
    /\ req = NoReq
    /\ calls = <<>>
    /\ resp = NoResp
    /\ before = store

ViewActivity ==
    \E rt \in Routes, verdict \in Verdicts :
        LET r == [NoReq EXCEPT !.handler = "ViewActivity.dispatch", !.method = "GET",
                               !.app = rt[1], !.title = rt[2], !.pk = rt[3],
                               !.verdict = verdict]
        IN  Handle(r, ViewActivityDispatch(r, store))

RollBackActivity ==
    \E rt \in Routes, verdict \in Verdicts :
        LET r == [NoReq EXCEPT !.handler = "RollBackActivity.post", !.method = "POST",
                               !.app = rt[1], !.title = rt[2], !.pk = rt[3],
                               !.verdict = verdict]
        IN  Handle(r, RollBackActivityPost(r, store))

\* verdict: what check() would have returned for the request
DeleteActivity ==
    \E rt \in Routes, method \in {"GET", "POST"}, verdict \in Verdicts :
        LET r == [NoReq EXCEPT !.handler = "DeleteActivity.dispatch", !.method = method,
                               !.app = rt[1], !.title = rt[2], !.pk = rt[3],
                               !.verdict = verdict]
        IN  Handle(r, DeleteActivityDispatch(r, store))

CreateGet ==
    \E app \in Apps, title \in Titles, verdict \in Verdicts :
        LET r == [NoReq EXCEPT !.handler = "CreateActivity.get", !.method = "GET",
                               !.app = app, !.title = title, !.verdict = verdict]
        IN  Handle(r, CreateActivityGet(r))

\* a submission that fails validation
CreatePostInvalid ==
    /\ nextId <= MaxInstances
    /\ \E app \in Apps, title \in Titles, errs \in (SUBSET Fields) \ {{}} :
        LET r == [NoReq EXCEPT !.handler = "CreateActivity.post", !.method = "POST",
                               !.app = app, !.title = title, !.errs = errs]
        IN  Handle(r, CreateActivityPost(r, nextId))

\* a submission that validates; the routed pk is read for a non-initial step
\* only, and request.user for an initial step only
CreatePostValid ==
    /\ nextId <= MaxInstances
    /\ \E app \in Apps, title \in Titles, data \in Data :
       \E pk \in (IF IsInitial(title) THEN {0} ELSE Pks),
          user \in (IF IsInitial(title) THEN Users ELSE {""}) :
        LET r == [NoReq EXCEPT !.handler = "CreateActivity.post", !.method = "POST",
                               !.app = app, !.title = title, !.user = user,
                               !.pk = pk, !.data = data]
        IN  Handle(r, CreateActivityPost(r, nextId))

UpdateGet ==
    \E rt \in Routes, verdict \in Verdicts :
        LET r == [NoReq EXCEPT !.handler = "UpdateActivity.get", !.method = "GET",
                               !.app = rt[1], !.title = rt[2], !.pk = rt[3],
                               !.verdict = verdict]
        IN  Handle(r, UpdateActivityGet(r, store))

UpdatePostInvalid ==
    \E rt \in Routes, errs \in (SUBSET Fields) \ {{}}, post \in SUBSET Controls :
        LET r == [NoReq EXCEPT !.handler = "UpdateActivity.post", !.method = "POST",
                               !.app = rt[1], !.title = rt[2], !.pk = rt[3],
                               !.errs = errs, !.post = post]
        IN  Handle(r, UpdateActivityPost(r, store))

\* a submission that validates; request.user and POST['submit'] are read when
\* the decision button alone fired
UpdatePostValid ==
    \E rt \in Routes, data \in Data, post \in SUBSET Controls :
       \E user \in (IF post = {"submit"} THEN Users ELSE {""}),
          decision \in (IF post = {"submit"} THEN Decisions ELSE {""}) :
        LET r == [NoReq EXCEPT !.handler = "UpdateActivity.post", !.method = "POST",
                               !.app = rt[1], !.title = rt[2], !.pk = rt[3],
                               !.user = user, !.data = data, !.post = post,
                               !.decision = decision]
        IN  Handle(r, UpdateActivityPost(r, store))

Next ==
    \/ ViewActivity
    \/ RollBackActivity
    \/ DeleteActivity
    \/ CreateGet
    \/ CreatePostInvalid
    \/ CreatePostValid
    \/ UpdateGet
    \/ UpdatePostInvalid
    \/ UpdatePostValid

Spec == Init /\ [][Next]_vars

----------------------------------------------------------------------------
(* Type invariant *)

TypeOK ==
    /\ DOMAIN store \subseteq Ids
    /\ nextId \in 1..(MaxInstances + 1)
    /\ \A i \in DOMAIN store : i < nextId
    /\ req.handler \in Atomic \cup {"none", "ViewActivity.dispatch",
           "DeleteActivity.dispatch", "CreateActivity.get", "UpdateActivity.get"}

----------------------------------------------------------------------------
(* Vocabulary of the properties *)

\* positions of the calls of op in the last request
At(op) == {i \in DOMAIN calls : calls[i].op = op}

Count(op) == Cardinality(At(op))

\* the calls that change an instance or its task
Mutating == {"task.rollback", "initiate_request", "assign_task", "task.initiate",
             "form.save", "update", "finish", "task.submit"}

IsMutating(e) == e.op \in Mutating

\* the handlers that mix in AccessDeniedMixin
Guarded == {"ViewActivity.dispatch", "CreateActivity.get", "CreateActivity.post",
            "UpdateActivity.get", "UpdateActivity.post", "RollBackActivity.post"}

\* the handler returned a response of its own (it did not raise)
Responded == resp.kind \in {"redirect", "render", "denied"}

\* check() was called and returned a denial
GuardDenied == Count("check") > 0 /\ req.verdict = "deny"

----------------------------------------------------------------------------
(* C1 *)

\* C1: every request handled by View, Create (GET, POST), Update (GET, POST)
\* and Rollback (POST) that produces a response has called check at least once.
GuardInvokedInEveryRequest ==
    (req.handler \in Guarded /\ Responded) => Count("check") >= 1

(* C2 *)

\* C2: in a request where check returns a denial, no mutating call on the
\* instance or its task is made, before or after the check, and no template
\* is rendered.
DenialShortCircuits ==
    GuardDenied =>
        \A i \in DOMAIN calls : ~IsMutating(calls[i]) /\ calls[i].op # "render"

(* C3 *)

\* C3: a mutating handler (Create-POST, Update-POST, Rollback-POST) whose guard
\* denies, or that an unhandled fault leaves, has the persisted state it
\* started with.
AllOrNothing ==
    (req.handler \in Atomic /\ (GuardDenied \/ resp.kind = "fault"))
        => store = before

(* C4 *)

\* C4: a Create-POST whose form validates and whose instance is the initial
\* step calls initiate_request exactly once, with the requesting user, on an
\* instance that has no task yet (nothing but its construction precedes the
\* call and it is not in the store), and calls neither assign_task nor
\* task.initiate.
InitialCreateInitiatesOnce ==
    (req.handler = "CreateActivity.post" /\ IsValid(req) /\ IsInitial(req.title)) =>
        /\ Count("initiate_request") = 1
        /\ \A i \in At("initiate_request") :
              /\ calls[i].s = <<req.user>>
              /\ \A j \in 1..(i - 1) : calls[j].op = "model"
        /\ Count("assign_task") = 0
        /\ Count("task.initiate") = 0
        /\ resp.id \notin DOMAIN before

InitialCreateWitness ==
    /\ req.handler = "CreateActivity.post"
    /\ IsValid(req)
    /\ IsInitial(req.title)
    /\ req.user = "bob"
    /\ Count("initiate_request") = 1
    /\ resp.kind = "redirect"

(* C5 *)

\* C5: a Create-POST whose form validates and whose instance is a non-initial
\* step calls assign_task with the routed pk exactly once, then task.initiate
\* exactly once, never initiate_request, and redirects to the Update view of
\* (app_name, instance title, id of the new instance).
NonInitialCreateAssignsThenInitiates ==
    (req.handler = "CreateActivity.post" /\ IsValid(req) /\ ~IsInitial(req.title)) =>
        /\ SelectSeq(calls, IsMutating)
             = <<Ev("assign_task", req.pk, <<>>), Ev("task.initiate", 0, <<>>)>>
        /\ resp = RedirectUpdate(req.app, req.title, resp.id)
        /\ resp.id \in DOMAIN store \ DOMAIN before

NonInitialCreateWitness ==
    /\ req.handler = "CreateActivity.post"
    /\ IsValid(req)
    /\ req.app = "leave-request"
    /\ req.title = "Approval"
    /\ req.pk = 42
    /\ Count("assign_task") = 1
    /\ Count("task.initiate") = 1
    /\ resp.view = "update"

(* C6 *)

\* the submit control an Update-POST is taken to have fired: save, else
\* finish, else the decision button (the POST's `submit` key)
Fired ==
    IF "save" \in req.post THEN "save"
    ELSE IF "finish" \in req.post THEN "finish"
    ELSE IF "submit" \in req.post THEN "submit"
    ELSE "none"

RollbackBeforeGuard ==
    (req.handler = "RollBackActivity.post" /\ Responded) =>
        /\ Count("task.rollback") = 1
        /\ Count("check") = 1
        /\ \A i \in At("task.rollback"), j \in At("check") : i < j
        /\ req.verdict = "allow" => resp = RedirectIndex(req.app)
        /\ req.verdict = "deny" => resp = Denied

RollbackDeniedWitness ==
    /\ req.handler = "RollBackActivity.post"
    /\ req.verdict = "deny"
    /\ resp = Denied
    /\ Count("task.rollback") = 1

(* C8 *)

\* C8: a Create-POST whose form data is invalid does not instantiate the
\* model, calls none of initiate_request, assign_task, task.initiate, leaves
\* the store unchanged, and answers with the create form re-rendered with a
\* non-empty error message made from the form's errors.
InvalidCreatePersistsNothing ==
    (req.handler = "CreateActivity.post" /\ ~IsValid(req)) =>
        /\ Count("model") = 0
        /\ Count("initiate_request") = 0
        /\ Count("assign_task") = 0
        /\ Count("task.initiate") = 0
        /\ store = before
        /\ resp = Render("core/create.html", {"form", "error_message"},
                         GetErrors(req.errs))
        /\ resp.error # {}

InvalidCreateWitness ==
    /\ req.handler = "CreateActivity.post"
    /\ req.errs = {"subject"}
    /\ resp.kind = "render"
    /\ "error_message" \in resp.ctx

(* C9 *)

\* C9: an Update-POST whose form fails validation calls none of form.save,
\* update, finish, task.submit, whatever controls it carries, leaves the store
\* unchanged, and (the instance existing) answers with the edit form
\* re-rendered with the errors.
InvalidUpdateChangesNothing ==
    (req.handler = "UpdateActivity.post" /\ ~IsValid(req)) =>
        /\ Count("form.save") = 0
        /\ Count("update") = 0
        /\ Count("finish") = 0
        /\ Count("task.submit") = 0
        /\ store = before
        /\ Exists(req, before) =>
              resp = Render("core/update.html",
                            {"form", "object", "next", "error_message"},
                            GetErrors(req.errs))

InvalidUpdateWitness ==
    /\ req.handler = "UpdateActivity.post"
    /\ req.errs = {"subject"}
    /\ req.post = {"finish"}
    /\ Exists(req, before)
    /\ resp.kind = "render"

(* C10 *)

\* C10: a Delete request never calls check; a POST addressing an existing
\* instance deletes it and redirects to the workflow index of app_name, also
\* for an actor the guard would have denied.
DeleteNeverGuarded ==
    req.handler = "DeleteActivity.dispatch" =>
        /\ Count("check") = 0
        /\ (req.method = "POST" /\ Exists(req, before)) =>
              /\ req.pk \notin DOMAIN store
              /\ resp = RedirectIndex(req.app)

DeleteDeniedActorWitness ==
    /\ req.handler = "DeleteActivity.dispatch"
    /\ req.method = "POST"
    /\ req.verdict = "deny"
    /\ req.pk \in DOMAIN before
    /\ req.pk \notin DOMAIN store
    /\ resp.kind = "redirect"

=============================================================================
